---- MODULE Spec2Model ----
(***************************************************************************)
(* A model of script/aiff-enrichment2.py: the retrying single-item         *)
(* annotator (process_single_narrative), the pairwise comparator           *)
(* (process_narrative_pairs) and the pipeline driver (process_narratives). *)
(*                                                                         *)
(* Text is a sequence of atomic tokens, so that the f-string               *)
(* concatenations of the source are sequence concatenations and "starts    *)
(* with Error: " is a statement about the first token.                     *)
(***************************************************************************)
EXTENDS Integers, Sequences, FiniteSets, TLC

\* ------------------------------------------------------------------ bounds
\* Largest number of data rows of the table file.
MaxRows == 2
\* Largest max_retries a direct caller of process_single_narrative passes.
MaxAttempts == 3
\* Largest delay a direct caller of process_single_narrative passes.
MaxDelay == 2

\* ------------------------------------------------------- program constants
\* max_retries: int = 3
DefaultMaxRetries == 3
\* delay: int = 1
DefaultDelay == 1

\* ------------------------------------------------------------------- text
\* The two instruction templates (opaque text).
NARRATIVE_PROMPT == <<"NARRATIVE_PROMPT">>
COMPARISON_PROMPT == <<"COMPARISON_PROMPT">>

\* Python values that are not text: float('nan') (a missing cell as pandas
\* loads it) and None (a function that falls off its end).  Each is a
\* reserved one-token value that no text of the model contains.
NaN == <<"<float nan>">>
None == <<"<None>">>

\* str(v) as an f-string formats it.
Str(v) == IF v = NaN THEN <<"nan">> ELSE IF v = None THEN <<"None">> ELSE v

\* What the generation capability may answer on success (message.content) ...
Payloads == {<<"ok">>, <<"Error: ", "boom">>}
\* ... and str(e) of the exceptions it may raise (subclasses of Exception).
ErrMsgs == {<<"boom">>}

\* f"{prompt}\n\nNarrative: {narrative}"
Content(prompt, narrative) == prompt \o <<"\n\nNarrative: ">> \o Str(narrative)

\* f"Error: {str(e)}"
ErrorMarker(e) == <<"Error: ">> \o e

\* f"First: {narratives[i]}\nSecond: {narratives[i+1]}"
PairPayload(first, second) ==
    <<"First: ">> \o Str(first) \o <<"\nSecond: ">> \o Str(second)

\* ------------------------------------------------------------- table I/O
\* Cell texts of the Narrative column of the input file.
NarrativeCells == {<<"dog">>, <<"cat">>, <<"NA">>}

\* The cell texts pandas.read_csv loads as missing (keep_default_na), among
\* the texts of the model.
NaValues == {<<>>, <<"NA">>}

\* pd.read_csv on one cell; the model's cells are never numeric.
ReadCell(text) == IF text \in NaValues THEN NaN ELSE text

\* DataFrame.to_csv on one value: na_rep is '', text is written as it is.
WriteCell(v) == IF v \in {NaN, None} THEN <<>> ELSE v

ReadColumn(cells) == [k \in 1..Len(cells) |-> ReadCell(cells[k])]
WriteColumn(vals) == [k \in 1..Len(vals) |-> WriteCell(vals[k])]

\* All sequences over S of length at most n.
SeqUpTo(S, n) == UNION {[1..k -> S] : k \in 0..n}

VARIABLES
    entry,        \* which function the run calls: "single" or "pipeline"
    capability,   \* "any": answers are free; "deterministic": a function of the request
    memo,         \* the answers a deterministic capability has given so far
    call,         \* the activation of process_single_narrative
    pc,           \* position of the caller
    run,          \* "first" run of the pipeline or the "rerun" on its output
    file,         \* the table file at file_path
    file0,        \* history: the table file when the current run started
    df,           \* the DataFrame of process_narratives
    annotations,  \* results Series.apply has collected so far
    narratives,   \* process_narrative_pairs: its argument
    results,      \* process_narrative_pairs: its results list
    i,            \* process_narrative_pairs: its loop variable
    invocations,  \* history: the calls of process_single_narrative of this run
    outcomes,     \* history: what each of them returned, in order of return
    comparisons,  \* history: the calls of process_narrative_pairs of this run
    writes        \* history: how often this run wrote the table file

vars == <<entry, capability, memo, call, pc, run, file, file0, df, annotations,
          narratives, results, i, invocations, outcomes, comparisons, writes>>

IdleCall ==
    [status |-> "idle", narrative |-> <<>>, prompt |-> <<>>, max_retries |-> 0,
     delay |-> 0, attempt |-> 0, events |-> <<>>, result |-> None]

\* A table: its column names, its number of data rows and the three columns
\* the program touches (<<>> for a column the table does not have).
Table(columns, nrows, narr, ann, pers) ==
    [columns |-> columns, nrows |-> nrows, narr |-> narr, ann |-> ann,
     pers |-> pers]

NoTable == Table({}, 0, <<>>, <<>>, <<>>)

\* The files a first run may find at file_path: an unreadable one, one
\* without the Narrative column, and one with it.
InitialFiles ==
    {[readable |-> FALSE, table |-> NoTable]}
    \cup {[readable |-> TRUE, table |-> Table({"Story"}, n, <<>>, <<>>, <<>>)] :
            n \in 0..MaxRows}
    \cup {[readable |-> TRUE, table |-> Table({"Narrative"}, Len(c), c, <<>>, <<>>)] :
            c \in SeqUpTo(NarrativeCells, MaxRows)}

Init ==
    /\ entry \in {"single", "pipeline"}
    /\ capability \in {"any", "deterministic"}
    /\ memo = {}
    /\ call = IdleCall
    /\ pc = IF entry = "single" THEN "single" ELSE "start"
    /\ run = "first"
    /\ file \in IF entry = "single"
                THEN {[readable |-> FALSE, table |-> NoTable]}
                ELSE InitialFiles
    /\ file0 = file
    /\ df = NoTable
    /\ annotations = <<>>
    /\ narratives = <<>>
    /\ results = <<>>
    /\ i = 0
    /\ invocations = <<>>
    /\ outcomes = <<>>
    /\ comparisons = 0
    /\ writes = 0

\* ------------------------------------------------ generation capability
\* client.messages.create either returns message.content or raises.  A
\* deterministic capability answers a request as it answered it before.
Request == Content(call.prompt, call.narrative)

Allowed(resp) ==
    capability = "deterministic" =>
        \A m \in memo : m.request = Request => m.response = resp

Remember(resp) ==
    IF capability = "deterministic"
    THEN memo \cup {[request |-> Request, response |-> resp]}
    ELSE memo

\* ------------------------------------------- process_single_narrative
\* Entering the function: the for loop starts at attempt 0; with
\* max_retries = 0 its body never runs and the function returns None.
Enter(narrative, prompt, max_retries, delay) ==
    [status |-> IF max_retries = 0 THEN "returned" ELSE "running",
     narrative |-> narrative, prompt |-> prompt, max_retries |-> max_retries,
     delay |-> delay, attempt |-> 0, events |-> <<>>, result |-> None]

\* What happened inside one activation, in order: an attempt that failed with
\* str(e) = text, a time.sleep(d), an attempt that succeeded with text.
Event(e, d, text) == [e |-> e, d |-> d, text |-> text]

\* What an activation returned, and whether its last attempt succeeded.
Outcome(c) ==
    [result |-> c.result,
     ok |-> c.events # <<>> /\ c.events[Len(c.events)].e = "ok"]

\* Mutant: the last failure is re-raised instead of being returned as text.
LastFailure_Raises(c, e) ==
    [c EXCEPT !.events = Append(@, Event("fail", 0, e)),
              !.status = "raised"]

\* The capability raised on the last attempt: return f"Error: {str(e)}".
LastFailure(c, e) ==
    [c EXCEPT !.events = Append(@, Event("fail", 0, e)),
              !.result = ErrorMarker(e),
              !.status = "returned"]

\* Mutant: the backoff is delay * attempt, with the 0-based loop variable.
RetryAfter_ZeroBased(c, e) ==
    [c EXCEPT !.events = @ \o <<Event("fail", 0, e),
                                Event("sleep", c.delay * c.attempt, <<>>)>>,
              !.attempt = @ + 1]

\* The capability raised on an earlier attempt:
\* time.sleep(delay * (attempt + 1)), then the next iteration.
RetryAfter(c, e) ==
    [c EXCEPT !.events = @ \o <<Event("fail", 0, e),
                                Event("sleep", c.delay * (c.attempt + 1), <<>>)>>,
              !.attempt = @ + 1]

\* Mutant: the payload is returned without its last token.
Success_Truncated(c, p) ==
    [c EXCEPT !.events = Append(@, Event("ok", 0, p)),
              !.result = SubSeq(p, 1, Len(p) - 1),
              !.status = "returned"]

\* return message.content
Success(c, p) ==
    [c EXCEPT !.events = Append(@, Event("ok", 0, p)),
              !.result = p,
              !.status = "returned"]

AttemptSucceeds(p) ==
    /\ call.status = "running"
    /\ Allowed([ok |-> TRUE, text |-> p])
    /\ memo' = Remember([ok |-> TRUE, text |-> p])
    /\ call' = Success(call, p)
    /\ outcomes' = Append(outcomes, Outcome(call'))
    /\ UNCHANGED <<entry, capability, pc, run, file, file0, df, annotations,
                   narratives, results, i, invocations, comparisons,
                   writes>>

AttemptFails(e) ==
    /\ call.status = "running"
    /\ Allowed([ok |-> FALSE, text |-> e])
    /\ memo' = Remember([ok |-> FALSE, text |-> e])
    /\ IF call.attempt = call.max_retries - 1
       THEN /\ call' = LastFailure(call, e)
            /\ outcomes' = Append(outcomes, Outcome(call'))
       ELSE /\ call' = RetryAfter(call, e)
            /\ outcomes' = outcomes
    /\ UNCHANGED <<entry, capability, pc, run, file, file0, df, annotations,
                   narratives, results, i, invocations, comparisons,
                   writes>>

Invocation(by, row, c) ==
    [by |-> by, row |-> row, narrative |-> c.narrative, prompt |-> c.prompt]

\* A direct call of process_single_narrative with arguments of its caller's
\* choice (a positive or zero max_retries, a non-negative delay).
SingleCall(narrative, max_retries, delay) ==
    /\ pc = "single"
    /\ call' = Enter(narrative, NARRATIVE_PROMPT, max_retries, delay)
    /\ invocations' = Append(invocations, Invocation("single", 0, call'))
    /\ outcomes' = IF max_retries = 0
                   THEN Append(outcomes, Outcome(call'))
                   ELSE outcomes
    /\ pc' = "single_called"
    /\ UNCHANGED <<entry, capability, memo, run, file, file0, df, annotations,
                   narratives, results, i, comparisons,
                   writes>>

\* ------------------------------------------------- process_narratives
\* df = pd.read_csv(file_path, sep='\t') on a readable file.
ReadCsv ==
    /\ pc = "start"
    /\ file.readable
    /\ df' = Table(file.table.columns, file.table.nrows,
                   ReadColumn(file.table.narr), ReadColumn(file.table.ann),
                   ReadColumn(file.table.pers))
    /\ pc' = "loaded"
    /\ UNCHANGED <<entry, capability, memo, call, run, file, file0, annotations,
                   narratives, results, i, invocations, outcomes, comparisons,
                   writes>>

\* pd.read_csv raises on an unreadable file; nothing catches it.
ReadCsvRaises ==
    /\ pc = "start"
    /\ ~file.readable
    /\ pc' = "raised"
    /\ UNCHANGED <<entry, capability, memo, call, run, file, file0, df,
                   annotations, narratives, results, i, invocations, outcomes,
                   comparisons, writes>>

\* df['Narrative'] raises KeyError when the column is missing.
NarrativeMissing ==
    /\ pc = "loaded"
    /\ "Narrative" \notin df.columns
    /\ pc' = "raised"
    /\ UNCHANGED <<entry, capability, memo, call, run, file, file0, df,
                   annotations, narratives, results, i, invocations, outcomes,
                   comparisons, writes>>

\* df['Narrative'].apply(...) starts over the rows of the column.
ApplyStart ==
    /\ pc = "loaded"
    /\ "Narrative" \in df.columns
    /\ annotations' = <<>>
    /\ pc' = "apply"
    /\ UNCHANGED <<entry, capability, memo, call, run, file, file0, df,
                   narratives, results, i, invocations, outcomes, comparisons,
                   writes>>

\* Mutant: apply starts at the second row.
NextRow_SkipsFirst == Len(annotations) + 2

\* The row whose narrative Series.apply hands to the lambda next.
NextRow == Len(annotations) + 1

\* lambda x: process_single_narrative(x, client, narrative_prompt)
ApplyCall ==
    /\ pc = "apply"
    /\ call.status = "idle"
    /\ NextRow <= df.nrows
    /\ call' = Enter(df.narr[NextRow], NARRATIVE_PROMPT, DefaultMaxRetries,
                     DefaultDelay)
    /\ invocations' = Append(invocations, Invocation("apply", NextRow, call'))
    /\ UNCHANGED <<entry, capability, memo, pc, run, file, file0, df,
                   annotations, narratives, results, i, outcomes, comparisons,
                   writes>>

\* The lambda returns: apply keeps the result for that row.
ApplyReturn ==
    /\ pc = "apply"
    /\ call.status = "returned"
    /\ annotations' = Append(annotations, call.result)
    /\ call' = IdleCall
    /\ UNCHANGED <<entry, capability, memo, pc, run, file, file0, df,
                   narratives, results, i, invocations, outcomes, comparisons,
                   writes>>

\* Mutant: the table is saved as soon as the annotations are in.
AssignAnnotations_Checkpoint ==
    /\ pc = "apply"
    /\ call.status = "idle"
    /\ Len(annotations) >= df.nrows
    /\ df' = [df EXCEPT !.ann = annotations,
                        !.columns = @ \cup {"Narrative_roles_and_salient_elements"}]
    /\ file' = [readable |-> TRUE,
                table |-> Table(df'.columns, df.nrows, WriteColumn(df.narr),
                                WriteColumn(df'.ann), WriteColumn(df.pers))]
    /\ writes' = writes + 1
    /\ pc' = "annotated"
    /\ UNCHANGED <<entry, capability, memo, call, run, file0, annotations,
                   narratives, results, i, invocations, outcomes, comparisons>>

\* Mutant: the column is inserted (DataFrame.insert), which raises when the
\* table already has it.
AssignAnnotations_Insert ==
    /\ pc = "apply"
    /\ call.status = "idle"
    /\ Len(annotations) >= df.nrows
    /\ IF "Narrative_roles_and_salient_elements" \in df.columns
       THEN /\ pc' = "raised"
            /\ df' = df
       ELSE /\ pc' = "annotated"
            /\ df' = [df EXCEPT !.ann = annotations,
                                !.columns = @ \cup {"Narrative_roles_and_salient_elements"}]
    /\ UNCHANGED <<entry, capability, memo, call, run, file, file0, annotations,
                   narratives, results, i, invocations, outcomes, comparisons,
                   writes>>

\* df['Narrative_roles_and_salient_elements'] = <the applied Series>
AssignAnnotations ==
    /\ pc = "apply"
    /\ call.status = "idle"
    /\ NextRow > df.nrows
    /\ df' = [df EXCEPT !.ann = annotations,
                        !.columns = @ \cup {"Narrative_roles_and_salient_elements"}]
    /\ pc' = "annotated"
    /\ UNCHANGED <<entry, capability, memo, call, run, file, file0, annotations,
                   narratives, results, i, invocations, outcomes, comparisons,
                   writes>>

\* -------------------------------------------- process_narrative_pairs
\* Mutant: one element too few.
EmptyResults_Short(n) == [k \in 1..(n - 1) |-> <<>>]

\* results = [''] * len(narratives)
EmptyResults(n) == [k \in 1..n |-> <<>>]

\* Called on df['Narrative_roles_and_salient_elements'].tolist().
PairsEnter ==
    /\ pc = "annotated"
    /\ narratives' = df.ann
    /\ results' = EmptyResults(Len(df.ann))
    /\ i' = 0
    /\ comparisons' = comparisons + 1
    /\ pc' = "pairs"
    /\ UNCHANGED <<entry, capability, memo, call, run, file, file0, df,
                   annotations, invocations, outcomes, writes>>

\* Python's narratives[j] (0-based) is narratives[j + 1] here.
PairsCall ==
    /\ pc = "pairs"
    /\ call.status = "idle"
    /\ i < Len(narratives) - 1
    /\ call' = Enter(PairPayload(narratives[i + 1], narratives[i + 2]),
                     COMPARISON_PROMPT, DefaultMaxRetries, DefaultDelay)
    /\ invocations' = Append(invocations, Invocation("pairs", i, call'))
    /\ UNCHANGED <<entry, capability, memo, pc, run, file, file0, df,
                   annotations, narratives, results, i, outcomes, comparisons,
                   writes>>

\* Mutant: the result is stored at the first row of the pair.
StoreResult_OffByOne(res, j, value) == [res EXCEPT ![j + 1] = value]

\* results[i+1] = pair_result
StoreResult(res, j, value) == [res EXCEPT ![j + 2] = value]

PairsReturn ==
    /\ pc = "pairs"
    /\ call.status = "returned"
    /\ results' = StoreResult(results, i, call.result)
    /\ i' = i + 1
    /\ call' = IdleCall
    /\ UNCHANGED <<entry, capability, memo, pc, run, file, file0, df,
                   annotations, narratives, invocations, outcomes, comparisons,
                   writes>>

\* return results; df['Elements_persistence'] = <the returned list>
PairsExit ==
    /\ pc = "pairs"
    /\ call.status = "idle"
    /\ ~(i < Len(narratives) - 1)
    /\ df' = [df EXCEPT !.pers = results,
                        !.columns = @ \cup {"Elements_persistence"}]
    /\ pc' = "computed"
    /\ UNCHANGED <<entry, capability, memo, call, run, file, file0, annotations,
                   narratives, results, i, invocations, outcomes, comparisons,
                   writes>>

\* df.to_csv(file_path, sep='\t', index=False)
ToCsv ==
    /\ pc = "computed"
    /\ file' = [readable |-> TRUE,
                table |-> Table(df.columns, df.nrows, WriteColumn(df.narr),
                                WriteColumn(df.ann), WriteColumn(df.pers))]
    /\ writes' = writes + 1
    /\ pc' = "done"
    /\ UNCHANGED <<entry, capability, memo, call, run, file0, df, annotations,
                   narratives, results, i, invocations, outcomes,
                   comparisons>>

\* The pipeline is run again on the file the first run wrote.
Rerun ==
    /\ pc = "done"
    /\ run = "first"
    /\ run' = "rerun"
    /\ pc' = "start"
    /\ file0' = file
    /\ df' = NoTable
    /\ annotations' = <<>>
    /\ narratives' = <<>>
    /\ results' = <<>>
    /\ i' = 0
    /\ invocations' = <<>>
    /\ outcomes' = <<>>
    /\ comparisons' = 0
    /\ writes' = 0
    /\ UNCHANGED <<entry, capability, memo, call, file>>

Next ==
    \/ \E p \in Payloads : AttemptSucceeds(p)
    \/ \E e \in ErrMsgs : AttemptFails(e)
    \/ \E n \in NarrativeCells, m \in 0..MaxAttempts, d \in 0..MaxDelay :
          SingleCall(n, m, d)
    \/ ReadCsv
    \/ ReadCsvRaises
    \/ NarrativeMissing
    \/ ApplyStart
    \/ ApplyCall
    \/ ApplyReturn
    \/ AssignAnnotations
    \/ PairsEnter
    \/ PairsCall
    \/ PairsReturn
    \/ PairsExit
    \/ ToCsv
    \/ Rerun

Spec == Init /\ [][Next]_vars

\* ================================================================ claims
\* The events of one kind inside an activation.
EventsOf(c, kind) == SelectSeq(c.events, LAMBDA x : x.e = kind)
Fails(c) == Len(EventsOf(c, "fail"))
Attempts(c) == Fails(c) + Len(EventsOf(c, "ok"))
AllFailed(c) == EventsOf(c, "ok") = <<>>
FailureMarkers == {ErrorMarker(e) : e \in ErrMsgs}

TypeOK ==
    /\ call.status \in {"idle", "running", "returned", "raised"}
    /\ pc \in {"single", "single_called", "start", "loaded", "raised", "apply",
               "annotated", "pairs", "computed", "done"}

\* C1: with max_retries = m >= 1 and a capability that fails on every call,
\* process_single_narrative calls it exactly m times, then returns a failure
\* marker, and never raises: an activation whose attempts all failed is
\* still running with fewer than m attempts made, or has returned
\* "Error: " + str(e) of the m-th failure after exactly m attempts.
C1_AlwaysFailing ==
    (call.status # "idle" /\ call.max_retries >= 1 /\ AllFailed(call)) =>
        /\ call.status \in {"running", "returned"}
        /\ call.status = "running" => Attempts(call) < call.max_retries
        /\ call.status = "returned" =>
              /\ Attempts(call) = call.max_retries
              /\ call.result = ErrorMarker(call.events[Len(call.events)].text)
              /\ call.result \in FailureMarkers

W_C1 ==
    /\ call.status = "returned"
    /\ call.max_retries = 3
    /\ AllFailed(call)
    /\ Fails(call) = 3

\* C2: when the capability fails k times and then succeeds, with
\* max_retries > k, process_single_narrative returns the payload of the
\* successful attempt unchanged: a success ends the activation at once, after
\* k < max_retries failures, with the payload as the result; and no
\* activation gives up (returns a marker of a failure) before max_retries
\* failures.
C2_RetryRecovers ==
    /\ \A k \in 1..Len(call.events) :
          call.events[k].e = "ok" =>
              /\ k = Len(call.events)
              /\ call.status = "returned"
              /\ call.result = call.events[k].text
              /\ Fails(call) < call.max_retries
    /\ (call.status = "running" /\ Fails(call) < call.max_retries) =>
          call.attempt = Fails(call)
    /\ (call.status = "returned" /\ call.max_retries >= 1 /\ AllFailed(call)) =>
          Fails(call) = call.max_retries

W_C2 ==
    /\ call.status = "returned"
    /\ call.max_retries = 3
    /\ Fails(call) = 2
    /\ call.events[Len(call.events)].e = "ok"
    /\ call.result = <<"ok">>

\* C3: the caller can tell from the returned text alone whether the request
\* failed: no result of a successful attempt is a failure marker.
C3_Distinguishable ==
    (call.status = "returned" /\ ~AllFailed(call)) =>
        call.result \notin FailureMarkers

\* C6: process_single_narrative sleeps only between a failed attempt and the
\* next attempt: every sleep directly follows a failed attempt and is
\* followed by an attempt, the j-th sleep lasts delay * j, nothing follows a
\* success or the last failure, and an activation whose m attempts all
\* failed has slept exactly m - 1 times.
C6_Backoff ==
    LET ev == call.events
        sleeps == EventsOf(call, "sleep")
    IN  /\ \A k \in 1..Len(ev) :
              ev[k].e = "sleep" =>
                  /\ k > 1 /\ ev[k - 1].e = "fail"
                  /\ k < Len(ev) => ev[k + 1].e \in {"fail", "ok"}
                  /\ k = Len(ev) => call.status = "running"
        /\ \A k \in 1..Len(ev) :
              (ev[k].e = "fail" /\ k < Len(ev)) => ev[k + 1].e = "sleep"
        /\ \A j \in 1..Len(sleeps) : sleeps[j].d = call.delay * j
        /\ call.status = "returned" =>
              IF AllFailed(call) /\ call.max_retries >= 1
              THEN Len(sleeps) = call.max_retries - 1
              ELSE Len(sleeps) = Fails(call)

W_C6 ==
    /\ call.status = "returned"
    /\ call.delay = 2
    /\ call.max_retries = 3
    /\ AllFailed(call)
    /\ Len(EventsOf(call, "sleep")) = 2

\* The calls of process_single_narrative one caller made in this run.
CallsBy(by) == SelectSeq(invocations, LAMBDA x : x.by = by)
\* The number of adjacent pairs of a sequence of n elements.
Pairs(n) == IF n > 1 THEN n - 1 ELSE 0
InComparator == pc \in {"pairs", "computed", "done"}
Returned == pc \in {"computed", "done"}

\* C4: process_narrative_pairs returns as many elements as it was given:
\* nothing for no annotation, and for one annotation a single empty string
\* without any generation request.
C4_SameLength ==
    InComparator =>
        /\ Len(results) = Len(narratives)
        /\ Len(narratives) = 0 => results = <<>>
        /\ Len(narratives) = 1 =>
              /\ results = << <<>> >>
              /\ CallsBy("pairs") = <<>>
        /\ Returned => Len(df.pers) = Len(df.ann)

W_C4 ==
    /\ pc = "computed"
    /\ Len(narratives) = 2
    /\ Len(results) = 2
    /\ Len(CallsBy("pairs")) = 1

\* C5: in the output of process_narrative_pairs element 0 is the empty
\* string, and element j (1 <= j <= N-1, 0-based) is what one call of
\* process_single_narrative returned for the payload
\* "First: <annotation j-1>\nSecond: <annotation j>" under the comparison
\* prompt, whatever the two annotations are (failure markers included);
\* there is one such call per adjacent pair and no other.
C5_PairResults ==
    InComparator =>
        LET n == Len(narratives)
        IN  /\ n >= 1 => results[1] = <<>>
            /\ Len(CallsBy("pairs")) <= Pairs(n)
            /\ \A j \in 2..n :
                  IF j <= i + 1
                  THEN /\ invocations[n + j - 1] =
                             [by |-> "pairs", row |-> j - 2,
                              narrative |-> <<"First: ">> \o narratives[j - 1]
                                            \o <<"\nSecond: ">> \o narratives[j],
                              prompt |-> COMPARISON_PROMPT]
                       /\ results[j] = outcomes[n + j - 1].result
                  ELSE results[j] = <<>>
            /\ Returned =>
                  /\ i = Pairs(n)
                  /\ Len(CallsBy("pairs")) = Pairs(n)
                  /\ df.pers = results

W_C5 ==
    /\ pc = "computed"
    /\ Len(narratives) = 2
    /\ ~outcomes[1].ok
    /\ narratives[1] \in FailureMarkers
    /\ results[2] = <<"ok">>

\* C7: one run of process_narratives calls process_single_narrative once per
\* row in row order, then process_narrative_pairs once over all the
\* annotations, strictly one request after the other: a request starts only
\* when every earlier request has returned, and every annotation request
\* precedes the first comparison request.
C7_Sequential ==
    entry = "pipeline" =>
        LET applied == CallsBy("apply")
            paired == CallsBy("pairs")
        IN  /\ invocations = applied \o paired
            /\ Len(applied) <= df.nrows
            /\ \A k \in 1..Len(applied) :
                  applied[k] = [by |-> "apply", row |-> k,
                                narrative |-> df.narr[k],
                                prompt |-> NARRATIVE_PROMPT]
            /\ \A k \in 1..Len(paired) : paired[k].row = k - 1
            /\ comparisons <= 1
            /\ comparisons = 1 =>
                  /\ Len(applied) = df.nrows
                  /\ Len(outcomes) >= df.nrows
                  /\ narratives = [k \in 1..df.nrows |-> outcomes[k].result]
            /\ paired # <<>> => comparisons = 1
            /\ Returned =>
                  /\ comparisons = 1
                  /\ Len(applied) = df.nrows
                  /\ Len(paired) = Pairs(df.nrows)
            /\ Len(invocations) \in {Len(outcomes), Len(outcomes) + 1}
            /\ call.status = "running" <=> Len(invocations) = Len(outcomes) + 1
            /\ call.status # "idle" =>
                  /\ call.narrative = invocations[Len(invocations)].narrative
                  /\ call.prompt = invocations[Len(invocations)].prompt

W_C7 ==
    /\ entry = "pipeline"
    /\ pc = "pairs"
    /\ df.nrows = 2
    /\ call.status = "running"
    /\ Fails(call) = 2
    /\ Len(invocations) = 3
    /\ ~outcomes[1].ok

\* C8: the table process_narratives saves has the rows of the input table
\* in the same order, each with its original narrative.
C8_RowsKept ==
    (run = "first" /\ pc = "done") =>
        /\ file.table.nrows = file0.table.nrows
        /\ file.table.narr = file0.table.narr

\* C9: on an unreadable file or a missing Narrative column
\* process_narratives raises before any generation request and without
\* writing the file; a run writes the file at most once, and only after
\* every annotation and comparison request has returned.
C9_StructuralAbort ==
    /\ writes <= 1
    /\ writes = 0 => file = file0
    /\ writes = 1 =>
          /\ pc = "done"
          /\ call.status = "idle"
          /\ Len(outcomes) = Len(invocations)
          /\ Len(invocations) = df.nrows + Pairs(df.nrows)
    /\ pc = "raised" =>
          /\ invocations = <<>>
          /\ writes = 0
          /\ file = file0
    /\ (entry = "pipeline"
        /\ (~file0.readable \/ "Narrative" \notin file0.table.columns)) =>
          /\ pc \in {"start", "loaded", "raised"}
          /\ invocations = <<>>
          /\ writes = 0

W_C9 ==
    /\ pc = "raised"
    /\ file0.readable
    /\ "Narrative" \notin file0.table.columns
    /\ file0.table.nrows = 2

\* C10: run on its own output, process_narratives does not raise, takes its
\* requests from the narrative column alone, leaves that column as it is
\* and overwrites the annotation and persistence columns; with a
\* deterministic capability the file after the second run is the file after
\* the first.
C10_Rerun ==
    run = "rerun" =>
        /\ pc # "raised"
        /\ \A k \in 1..Len(invocations) :
              invocations[k].by = "apply" =>
                  invocations[k].narrative =
                      ReadCell(file0.table.narr[invocations[k].row])
        /\ pc = "done" =>
              LET n == df.nrows
              IN  /\ file.table.nrows = file0.table.nrows
                  /\ file.table.columns = file0.table.columns
                  /\ file.table.narr = file0.table.narr
                  /\ file.table.ann = [k \in 1..n |-> outcomes[k].result]
                  /\ file.table.pers =
                        [k \in 1..n |->
                            IF k = 1 THEN <<>> ELSE outcomes[n + k - 1].result]
                  /\ capability = "deterministic" => file = file0

W_C10 ==
    /\ run = "rerun"
    /\ pc = "done"
    /\ capability = "deterministic"
    /\ df.nrows = 2
    /\ ~outcomes[2].ok
    /\ outcomes[3].ok
    /\ file = file0

====
